---------------------------- MODULE Spec2Model ----------------------------
(***************************************************************************)
(* A model of isz-tool.py, the decoder of the ISZ container format.       *)
(*                                                                         *)
(* Files are sequences of bytes (0..255).  The header, the segment table   *)
(* and the chunk pointer table are decoded from those bytes exactly as the *)
(* program decodes them (ctypes little-endian packed records, the XOR      *)
(* obfuscation, the 24 bit packed pointers).  The containers the model     *)
(* opens are produced by an encoder (the Make... operators) that is not    *)
(* part of the program: it only enumerates inputs.                         *)
(*                                                                         *)
(* Every method of ISZ_File is one atomic action (the program is single    *)
(* threaded and synchronous).  An action records in `result` what the call *)
(* returned or raised and the sequence of file reads and writes it made.   *)
(***************************************************************************)
EXTENDS Integers, Sequences, FiniteSets, TLC

(***************************************************************************)
(* Bytes and bit operations.  TLC integers are 32 bit signed, so a 32 bit  *)
(* unsigned value (a CRC, a checksum field) is kept as its four bytes,     *)
(* least significant first, which is also its layout in the header.        *)
(***************************************************************************)
Byte == 0..255

RECURSIVE BitXor(_, _)
BitXor(a, b) ==
    IF a = 0 THEN b
    ELSE IF b = 0 THEN a
    ELSE ((a + b) % 2) + 2 * BitXor(a \div 2, b \div 2)

Min(a, b) == IF a < b THEN a ELSE b
Max(a, b) == IF a > b THEN a ELSE b

RECURSIVE Zeros(_)
Zeros(n) == IF n <= 0 THEN <<>> ELSE <<0>> \o Zeros(n - 1)

RECURSIVE Repeat(_, _)
Repeat(n, b) == IF n <= 0 THEN <<>> ELSE <<b>> \o Repeat(n - 1, b)

\* Python slice s[a:b] for 0 <= a, on a sequence indexed from 1.
Slice(s, a, b) == SubSeq(s, a + 1, Min(b, Len(s)))

\* Python slice s[:-n]: everything but the last n elements.
DropLast(s, n) == SubSeq(s, 1, Max(0, Len(s) - n))

\* Python s.endswith(t)
EndsWith(s, t) ==
    Len(s) >= Len(t) /\ SubSeq(s, Len(s) - Len(t) + 1, Len(s)) = t

(***************************************************************************)
(* zlib.crc32(data, crc): the standard CRC-32 (reflected polynomial        *)
(* 0xEDB88320), continued from a previous value.  A 32 bit value is a      *)
(* tuple of four bytes, least significant first.                           *)
(***************************************************************************)
Xor4(x, y) == [i \in 1..4 |-> BitXor(x[i], y[i])]
Not32(x) == [i \in 1..4 |-> 255 - x[i]]
Zero32 == <<0, 0, 0, 0>>
CrcPoly == <<32, 131, 184, 237>>   \* 0xEDB88320

\* x >> 1 on the four bytes of x
Shr1(x) == [i \in 1..4 |->
              (x[i] \div 2) + (IF i < 4 THEN (x[i + 1] % 2) * 128 ELSE 0)]

RECURSIVE CrcRounds(_, _)
CrcRounds(c, k) ==
    IF k = 0 THEN c
    ELSE CrcRounds(IF c[1] % 2 = 1 THEN Xor4(Shr1(c), CrcPoly) ELSE Shr1(c),
                   k - 1)

crc_table == [n \in Byte |-> CrcRounds(<<n, 0, 0, 0>>, 8)]

RECURSIVE CrcUpdate(_, _)
CrcUpdate(c, data) ==
    IF data = <<>> THEN c
    ELSE CrcUpdate(Xor4(crc_table[BitXor(c[1], Head(data))],
                        <<c[2], c[3], c[4], 0>>),
                   Tail(data))

\* zlib.crc32(data, crc) & 0xffffffff
crc32(data, crc) == Not32(CrcUpdate(Not32(crc), data))

(***************************************************************************)
(* ISZ_header: the 64 byte packed little-endian record.  The state of a    *)
(* header object is its 64 byte buffer; a field is decoded from its bytes. *)
(* Unsigned 32 bit fields that are used as numbers are decoded to          *)
(* integers (the containers enumerated here keep them below 2^31); the two *)
(* checksums stay four bytes.                                              *)
(***************************************************************************)
HeaderSize == 64
SdtSize == 24

U8(buf, off) == buf[off + 1]
U16(buf, off) == buf[off + 1] + 256 * buf[off + 2]
U32(buf, off) ==
    buf[off + 1] + 256 * buf[off + 2] + 65536 * buf[off + 3]
        + 16777216 * buf[off + 4]
I8(buf, off) == IF buf[off + 1] >= 128 THEN buf[off + 1] - 256 ELSE buf[off + 1]
I32(buf, off) ==
    buf[off + 1] + 256 * buf[off + 2] + 65536 * buf[off + 3]
        + 16777216 * (IF buf[off + 4] >= 128 THEN buf[off + 4] - 256
                      ELSE buf[off + 4])
B32(buf, off) == SubSeq(buf, off + 1, off + 4)

signature(hdr) == SubSeq(hdr, 1, 4)
version_number(hdr) == U8(hdr, 5)
sector_size(hdr) == U16(hdr, 10)
total_sectors(hdr) == U32(hdr, 12)
encryption_type(hdr) == U8(hdr, 16)
nblock(hdr) == U32(hdr, 25)
pointer_length(hdr) == U8(hdr, 33)
file_seg_number(hdr) == I8(hdr, 34)
chunk_pointers_offset(hdr) == U32(hdr, 35)
segment_pointers_offset(hdr) == U32(hdr, 39)
data_offset(hdr) == U32(hdr, 43)
checksum1(hdr) == B32(hdr, 48)
size1(hdr) == U32(hdr, 52)
checksum2(hdr) == B32(hdr, 60)

\* b'IsZ!'
Magic == <<73, 115, 90, 33>>

\* password_types: the encryption codes the format enumerates
password_types == 0..4

\* StorageMethods
StorageZeros == 0
StorageData == 1
StorageZlib == 2
StorageBzip2 == 3

(***************************************************************************)
(* The file system: a function from file names to contents.  A file name   *)
(* is a sequence of characters, so that the name generators slice and      *)
(* format it as the program does.                                          *)
(***************************************************************************)
Exists(disk, name) == name \in DOMAIN disk

\* f.seek(offset); f.read(size): a negative size reads to the end of file
FileRead(file, offset, size) ==
    IF size < 0 THEN Slice(file, offset, Len(file))
    ELSE Slice(file, offset, offset + size)

\* Binds a computed value to a name (an operator parameter is evaluated
\* once): With(e, LAMBDA x : body) is body with x = e.
With(x, F(_)) == F(x)

\* read_header: f.readinto(self) overwrites the first bytes of the buffer
\* with what the file holds, then the three checks.
ReadInto(hdr, file) ==
    SubSeq(file, 1, Min(HeaderSize, Len(file)))
        \o SubSeq(hdr, Min(HeaderSize, Len(file)) + 1, HeaderSize)

read_header(hdr, file) ==
    With(ReadInto(hdr, file), LAMBDA new :
        [hdr |-> new,
         err |-> IF Min(HeaderSize, Len(file)) # 64
                 THEN "Error while reading the ISZ header"
                 ELSE IF signature(new) # Magic
                 THEN "Not an ISZ file (invalid signature)"
                 ELSE IF version_number(new) # 1 THEN "ISZ version not supported"
                 ELSE ""])

\* xor_obfuscate: data[i] ^ code[i % 4]
XorCode == <<182, 140, 165, 222>>
xor_obfuscate(data) ==
    [i \in 1..Len(data) |-> BitXor(data[i], XorCode[((i - 1) % 4) + 1])]

(***************************************************************************)
(* ISZ_sdt and read_segment/read_segments.  `size` is a 64 bit field that  *)
(* the program only compares with 0: it is kept as its eight bytes.        *)
(***************************************************************************)
SdtFromBuffer(data) ==
    [size |-> SubSeq(data, 1, 8),
     number_of_chunks |-> I32(data, 8),
     first_chunck_number |-> I32(data, 12),
     chunk_offset |-> I32(data, 16),
     left_size |-> I32(data, 20)]

\* read_segment at file position pos; from_buffer_copy raises on a short
\* buffer.
read_segment(file, pos) ==
    With(FileRead(file, pos, SdtSize), LAMBDA data :
        IF Len(data) < SdtSize
        THEN [err |-> "Buffer size too small", seg |-> <<>>]
        ELSE [err |-> "", seg |-> SdtFromBuffer(xor_obfuscate(data))])

\* The loop of read_segments: append descriptors until one has size 0.
\* A failing read leaves the descriptors appended so far.
RECURSIVE read_segment_loop(_, _, _)
read_segment_loop(file, pos, acc) ==
    With(read_segment(file, pos), LAMBDA r :
        IF r.err # "" THEN [err |-> r.err, segs |-> acc]
        ELSE IF r.seg.size = Zeros(8) THEN [err |-> "", segs |-> acc]
        ELSE read_segment_loop(file, pos + SdtSize, Append(acc, r.seg)))

uniq_seg(hdr) ==
    [size |-> Zeros(8),
     number_of_chunks |-> nblock(hdr),
     first_chunck_number |-> 0,
     chunk_offset |-> data_offset(hdr),
     left_size |-> 0]

(***************************************************************************)
(* The name generators.  '%02d' and '%03d' are decimal, zero padded.       *)
(***************************************************************************)
Digit(d) == <<"0", "1", "2", "3", "4", "5", "6", "7", "8", "9">>[d + 1]

RECURSIVE Decimal(_)
Decimal(n) == IF n < 10 THEN <<Digit(n)>>
              ELSE Decimal(n \div 10) \o <<Digit(n % 10)>>

ZeroPad(n, width) ==
    With(Decimal(n), LAMBDA d : [i \in 1..Max(0, width - Len(d)) |-> "0"] \o d)

DotIsz == <<".", "i", "s", "z">>

name_generator_1(filename, seg_id) ==
    IF seg_id # 0 THEN DropLast(filename, 4) \o <<".", "i">> \o ZeroPad(seg_id, 2)
    ELSE filename

name_generator_2(filename, seg_id) ==
    DropLast(filename, 11) \o <<".", "p", "a", "r", "t">>
        \o ZeroPad(seg_id + 1, 2) \o DotIsz

name_generator_3(filename, seg_id) ==
    DropLast(filename, 12) \o <<".", "p", "a", "r", "t">>
        \o ZeroPad(seg_id + 1, 3) \o DotIsz

name_generator_no_change(filename, seg_id) == filename

\* self.name_generator is a bound method: the handle stores which one.
name_generator(ng, filename, seg_id) ==
    CASE ng = "name_generator_1" -> name_generator_1(filename, seg_id)
      [] ng = "name_generator_2" -> name_generator_2(filename, seg_id)
      [] ng = "name_generator_3" -> name_generator_3(filename, seg_id)
      [] ng = "name_generator_no_change" ->
             name_generator_no_change(filename, seg_id)

name_generators == <<"name_generator_1", "name_generator_2", "name_generator_3">>

\* detect_file_naming_convention: the first generator whose name for segment
\* 1 exists.  probes: the names passed to os.path.exists, in order.
RECURSIVE detect_loop(_, _, _, _)
detect_loop(disk, filename, k, probes) ==
    IF k > Len(name_generators)
    THEN [err |-> "Unable to find the naming convention used for the multi-part ISZ file",
          ng |-> "", probes |-> probes]
    ELSE With(name_generator(name_generators[k], filename, 1), LAMBDA cand :
             IF Exists(disk, cand)
             THEN [err |-> "", ng |-> name_generators[k],
                   probes |-> Append(probes, cand)]
             ELSE detect_loop(disk, filename, k + 1, Append(probes, cand)))

\* A variant of detect_file_naming_convention that never tries the first rule.
detect_from_second_rule(disk, filename) ==
    IF EndsWith(filename, DotIsz)
    THEN detect_loop(disk, filename, 2, <<>>)
    ELSE [err |-> "For multi-parts ISZ files, the first file need to have an .isz extension",
          ng |-> "", probes |-> <<>>]

detect_file_naming_convention(disk, filename) ==
    IF EndsWith(filename, DotIsz)
    THEN detect_loop(disk, filename, 1, <<>>)
    ELSE [err |-> "For multi-parts ISZ files, the first file need to have an .isz extension",
          ng |-> "", probes |-> <<>>]

\* check_segment_names: the first segment index whose file is missing, or -1
RECURSIVE check_segment_names(_, _, _, _, _)
check_segment_names(disk, ng, filename, nseg, i) ==
    IF i >= nseg THEN -1
    ELSE IF ~Exists(disk, name_generator(ng, filename, i)) THEN i
    ELSE check_segment_names(disk, ng, filename, nseg, i + 1)

(***************************************************************************)
(* Events: what a call read, probed or wrote, in order.  Fields that do    *)
(* not apply are -1 or the empty name.                                     *)
(***************************************************************************)
None == <<>>

Ev(ev, name, block, off, size, got) ==
    [ev |-> ev, name |-> name, block |-> block, off |-> off, size |-> size,
     got |-> got]

ExistsEvents(names) ==
    [i \in 1..Len(names) |-> Ev("exists", names[i], -1, -1, -1, -1)]

\* The first part of read_segments: the synthetic descriptor or the table.
read_segment_table(hdr, file) ==
    IF segment_pointers_offset(hdr) = 0
    THEN [err |-> "", segs |-> <<uniq_seg(hdr)>>]
    ELSE read_segment_loop(file, segment_pointers_offset(hdr), <<>>)

\* The second part of read_segments: the choice of the name generator.
choose_name_generator(disk, filename, nseg) ==
    IF nseg > 1
    THEN detect_file_naming_convention(disk, filename)
    ELSE [err |-> "", ng |-> "name_generator_no_change", probes |-> <<>>]

\* read_segments: the table, the choice of the name generator, then
\* check_segment_names.  ng0 is the generator the handle had: a failure
\* before the assignment leaves it.
read_segments(disk, hdr, file, filename, ng0) ==
    With(read_segment_table(hdr, file), LAMBDA tab :
    With(<<Ev("read_segments", filename, -1, segment_pointers_offset(hdr), -1,
              Len(tab.segs))>>, LAMBDA log1 :
        IF tab.err # ""
        THEN [err |-> tab.err, segs |-> tab.segs, ng |-> ng0, log |-> log1]
        ELSE With(choose_name_generator(disk, filename, Len(tab.segs)),
                  LAMBDA det :
             With(log1 \o ExistsEvents(det.probes), LAMBDA log2 :
                 IF det.err # ""
                 THEN [err |-> det.err, segs |-> tab.segs, ng |-> ng0,
                       log |-> log2]
                 ELSE [err |-> IF check_segment_names(disk, det.ng, filename,
                                                      Len(tab.segs), 0) # -1
                               THEN "Unable to find segment number"
                               ELSE "",
                       segs |-> tab.segs, ng |-> det.ng, log |-> log2]))))

\* The decoding loop of read_chunk_pointers over the de-obfuscated table:
\* three bytes per block, little endian; the top two bits are the storage
\* method, the low 22 bits the size.  A table shorter than 3 * nblock bytes
\* raises IndexError at the first incomplete pointer.
RECURSIVE chunk_pointer_loop(_, _, _, _)
chunk_pointer_loop(data2, i, n, acc) ==
    IF i >= n THEN [err |-> "", ptrs |-> acc]
    ELSE With(Slice(data2, i * 3, (i + 1) * 3), LAMBDA data :
             IF Len(data) < 3
             THEN [err |-> "index out of range", ptrs |-> acc]
             ELSE chunk_pointer_loop(data2, i + 1, n,
                      Append(acc, <<data[3] \div 64,
                                    (data[3] % 64) * 65536 + data[2] * 256
                                        + data[1]>>)))

\* A variant of read_chunk_pointers whose synthetic pointer has the block
\* count for size.
read_chunk_pointers_nblock(hdr, file) ==
    IF chunk_pointers_offset(hdr) = 0
    THEN [err |-> "", ptrs |-> <<<<StorageData, nblock(hdr)>>>>]
    ELSE IF pointer_length(hdr) # 3
    THEN [err |-> "Only pointer sizes of 3 implemented", ptrs |-> <<>>]
    ELSE chunk_pointer_loop(
             xor_obfuscate(FileRead(file, chunk_pointers_offset(hdr),
                                    pointer_length(hdr) * nblock(hdr))),
             0, nblock(hdr), <<>>)

read_chunk_pointers(hdr, file) ==
    IF chunk_pointers_offset(hdr) = 0
    THEN [err |-> "", ptrs |-> <<<<StorageData, size1(hdr)>>>>]
    ELSE IF pointer_length(hdr) # 3
    THEN [err |-> "Only pointer sizes of 3 implemented", ptrs |-> <<>>]
    ELSE chunk_pointer_loop(
             xor_obfuscate(FileRead(file, chunk_pointers_offset(hdr),
                                    pointer_length(hdr) * nblock(hdr))),
             0, nblock(hdr), <<>>)

(***************************************************************************)
(* A handle: the instance attributes of an ISZ_File.  The class attribute  *)
(* isz_header is one object shared by every instance (the variable         *)
(* isz_header below).  The class level lists isz_segments and              *)
(* chunk_pointers are never appended to: open_isz_file calls close_file    *)
(* first, which binds fresh lists on the instance.                         *)
(***************************************************************************)
NewHandle ==
    [fp |-> None, filename |-> None, isz_segments |-> <<>>,
     chunk_pointers |-> <<>>, name_generator |-> "unset"]

close_file(hnd) ==
    [hnd EXCEPT !.fp = None, !.isz_segments = <<>>, !.chunk_pointers = <<>>]

\* The end of open_isz_file: read_segments and read_chunk_pointers on the
\* header just read.
open_tables(disk, hdr, h1, file, filename, log1) ==
    With(read_segments(disk, hdr, file, filename, h1.name_generator),
         LAMBDA rs :
    With([h1 EXCEPT !.isz_segments = rs.segs, !.name_generator = rs.ng],
         LAMBDA h2 :
        IF rs.err # ""
        THEN [hdr |-> hdr, hnd |-> h2, err |-> rs.err, log |-> log1 \o rs.log]
        ELSE With(read_chunk_pointers(hdr, file), LAMBDA cp :
                 [hdr |-> hdr,
                  hnd |-> [h2 EXCEPT !.chunk_pointers = cp.ptrs],
                  err |-> cp.err,
                  log |-> (log1 \o rs.log)
                            \o <<Ev("read_chunk_pointers", filename, -1,
                                    chunk_pointers_offset(hdr), -1,
                                    Len(cp.ptrs))>>])))

\* A variant of open_existing without the first-segment check.
open_existing_no_segment_check(disk, hdr, h1, file, filename) ==
    With(read_header(hdr, file), LAMBDA rh :
    With(<<Ev("read_header", filename, -1, 0, HeaderSize,
              Min(HeaderSize, Len(file)))>>, LAMBDA log1 :
        IF rh.err # ""
        THEN [hdr |-> rh.hdr, hnd |-> h1, err |-> rh.err, log |-> log1]
        ELSE open_tables(disk, rh.hdr, h1, file, filename, log1)))

\* open_isz_file on an existing file, the handle closed and named: open,
\* read_header, the first-segment check, then the tables.
open_existing(disk, hdr, h1, file, filename) ==
    With(read_header(hdr, file), LAMBDA rh :
    With(<<Ev("read_header", filename, -1, 0, HeaderSize,
              Min(HeaderSize, Len(file)))>>, LAMBDA log1 :
        IF rh.err # ""
        THEN [hdr |-> rh.hdr, hnd |-> h1, err |-> rh.err, log |-> log1]
        ELSE IF file_seg_number(rh.hdr) # 0
        THEN [hdr |-> rh.hdr, hnd |-> h1,
              err |-> "Not the first segment in a set", log |-> log1]
        ELSE open_tables(disk, rh.hdr, h1, file, filename, log1)))

\* open_isz_file: close_file, then open(filename, 'rb') and the rest.
\* Returns the new shared header, the new handle, the error raised ("" if
\* none) and the events.
open_isz_file(disk, hdr, hnd, filename) ==
    With([close_file(hnd) EXCEPT !.filename = filename], LAMBDA h0 :
        IF ~Exists(disk, filename)
        THEN [hdr |-> hdr, hnd |-> h0, err |-> "No such file", log |-> <<>>]
        ELSE open_existing(disk, hdr, [h0 EXCEPT !.fp = filename],
                           disk[filename], filename))

(***************************************************************************)
(* read_data and get_block.                                                *)
(***************************************************************************)
NoData(err, log) == [err |-> err, data |-> <<>>, log |-> log]

\* read_data: open the file of segment seg_id, seek, read, close.
read_data(disk, hnd, block_id, seg_id, offset, size) ==
    IF hnd.name_generator = "unset"
    THEN NoData("no attribute name_generator", <<>>)
    ELSE With(name_generator(hnd.name_generator, hnd.filename, seg_id),
              LAMBDA name :
             IF ~Exists(disk, name) THEN NoData("No such file", <<>>)
             ELSE IF offset < 0 THEN NoData("negative seek value", <<>>)
             ELSE With(FileRead(disk[name], offset, size), LAMBDA data :
                      [err |-> "", data |-> data,
                       log |-> <<Ev("read", name, block_id, offset, size,
                                    Len(data))>>]))

\* A variant of find_offset that also adds the sizes of the Zeros blocks.
RECURSIVE find_offset_counting_zeros(_, _, _, _)
find_offset_counting_zeros(chunk_pointers, i, block_id, cur_offset) ==
    IF i >= block_id THEN cur_offset
    ELSE find_offset_counting_zeros(chunk_pointers, i + 1, block_id,
                                    cur_offset + chunk_pointers[i + 1][2])

\* "find the correct offset": add the sizes of the blocks first..block_id-1
\* of the segment that are not Zeros.
RECURSIVE find_offset(_, _, _, _)
find_offset(chunk_pointers, i, block_id, cur_offset) ==
    IF i >= block_id THEN cur_offset
    ELSE find_offset(chunk_pointers, i + 1, block_id,
                     IF chunk_pointers[i + 1][1] # StorageZeros
                     THEN cur_offset + chunk_pointers[i + 1][2]
                     ELSE cur_offset)

\* A variant of get_block_join that reads the rest of a split block at the
\* start of the next file instead of after its header.
get_block_join_at_zero(disk, hnd, block_id, seg_id, block_size, left_size, split, r1) ==
    IF r1.err # "" THEN NoData(r1.err, r1.log)
    ELSE IF ~split
    THEN IF Len(r1.data) # block_size
         THEN NoData("Unable to read block", r1.log)
         ELSE r1
    ELSE With(read_data(disk, hnd, block_id, seg_id + 1, 0, left_size),
              LAMBDA r2 :
             IF r2.err # "" THEN NoData(r2.err, r1.log)
             ELSE IF Len(r1.data \o r2.data) # block_size
             THEN NoData("Unable to read block", r1.log \o r2.log)
             ELSE [err |-> "", data |-> r1.data \o r2.data,
                   log |-> r1.log \o r2.log])

\* The end of get_block: the second read of a split block and the length
\* check.  r1 is the read from the block's own segment.
get_block_join(disk, hnd, block_id, seg_id, block_size, left_size, split, r1) ==
    IF r1.err # "" THEN NoData(r1.err, r1.log)
    ELSE IF ~split
    THEN IF Len(r1.data) # block_size
         THEN NoData("Unable to read block", r1.log)
         ELSE r1
    ELSE With(read_data(disk, hnd, block_id, seg_id + 1, HeaderSize, left_size),
              LAMBDA r2 :
             IF r2.err # "" THEN NoData(r2.err, r1.log)
             ELSE IF Len(r1.data \o r2.data) # block_size
             THEN NoData("Unable to read block", r1.log \o r2.log)
             ELSE [err |-> "", data |-> r1.data \o r2.data,
                   log |-> r1.log \o r2.log])

\* The body of get_block once the segment seg_id holding block_id is found.
get_block_in_segment(disk, hnd, block_id, seg_id, segment, block_size) ==
    With(block_id = segment.first_chunck_number + segment.number_of_chunks - 1,
         LAMBDA is_last :
        get_block_join(disk, hnd, block_id, seg_id, block_size,
            segment.left_size, is_last /\ segment.left_size # 0,
            read_data(disk, hnd, block_id, seg_id,
                find_offset(hnd.chunk_pointers, segment.first_chunck_number,
                            block_id, segment.chunk_offset),
                IF is_last THEN block_size - segment.left_size
                ELSE block_size)))

\* The scan of get_block over the segments, from seg_id on.
RECURSIVE get_block_scan(_, _, _, _)
get_block_scan(disk, hnd, block_id, seg_id) ==
    IF seg_id >= Len(hnd.isz_segments)
    THEN NoData("Unable to find the segment of block", <<>>)
    ELSE With(hnd.isz_segments[seg_id + 1], LAMBDA segment :
             IF /\ block_id >= segment.first_chunck_number
                /\ block_id <= segment.first_chunck_number
                                  + segment.number_of_chunks - 1
             THEN get_block_in_segment(disk, hnd, block_id, seg_id, segment,
                                       hnd.chunk_pointers[block_id + 1][2])
             ELSE get_block_scan(disk, hnd, block_id, seg_id + 1))

get_block(disk, hnd, block_id) ==
    IF block_id < 0 \/ block_id >= Len(hnd.chunk_pointers)
    THEN NoData("index out of range", <<>>)
    ELSE get_block_scan(disk, hnd, block_id, 0)

(***************************************************************************)
(* zlib.decompress and bz2.decompress are library calls.  They are         *)
(* modelled by a small run-length codec that, like the libraries, maps a   *)
(* stream to bytes of another length or rejects it: a zlib stream is a     *)
(* non-empty sequence of (count, byte) pairs, a bzip2 stream is the three  *)
(* bytes 'BZh' followed by such pairs.                                     *)
(***************************************************************************)
RECURSIVE RunLengthExpand(_)
RunLengthExpand(s) ==
    IF Len(s) < 2 THEN <<>>
    ELSE Repeat(s[1], s[2]) \o RunLengthExpand(SubSeq(s, 3, Len(s)))

zlib_decompress(data) ==
    IF Len(data) = 0 \/ Len(data) % 2 # 0
    THEN [err |-> "zlib.error", data |-> <<>>]
    ELSE [err |-> "", data |-> RunLengthExpand(data)]

BZh == <<66, 90, 104>>

bz2_decompress(data) ==
    IF Len(data) < 5 \/ SubSeq(data, 1, 3) # BZh \/ (Len(data) - 3) % 2 # 0
    THEN [err |-> "Invalid data stream", data |-> <<>>]
    ELSE [err |-> "", data |-> RunLengthExpand(SubSeq(data, 4, Len(data)))]

\* data[0] = ord('B'); data[1] = ord('Z'); data[2] = ord('h')
restore_bz2_header(data) == BZh \o SubSeq(data, 4, Len(data))

\* The dispatch of decompress_block on the bytes gb that get_block returned.
decompress_data(data_type, gb) ==
    IF gb.err # "" THEN gb
    ELSE IF data_type = StorageData THEN gb
    ELSE IF data_type = StorageZlib
    THEN With(zlib_decompress(gb.data), LAMBDA z :
             [err |-> z.err, data |-> z.data, log |-> gb.log])
    ELSE IF Len(gb.data) < 3 THEN NoData("index out of range", gb.log)
    ELSE With(bz2_decompress(restore_bz2_header(gb.data)), LAMBDA b :
             [err |-> b.err, data |-> b.data, log |-> gb.log])

\* A variant of decompress_block in which a Zeros block yields no bytes.
decompress_block_skip_zeros(disk, hnd, block_id) ==
    IF block_id < 0 \/ block_id >= Len(hnd.chunk_pointers)
    THEN NoData("index out of range", <<>>)
    ELSE IF hnd.chunk_pointers[block_id + 1][1] = StorageZeros
    THEN [err |-> "", data |-> <<>>, log |-> <<>>]
    ELSE decompress_data(hnd.chunk_pointers[block_id + 1][1],
                         get_block(disk, hnd, block_id))

\* decompress_block
decompress_block(disk, hnd, block_id) ==
    IF block_id < 0 \/ block_id >= Len(hnd.chunk_pointers)
    THEN NoData("index out of range", <<>>)
    ELSE IF hnd.chunk_pointers[block_id + 1][1] = StorageZeros
    THEN [err |-> "", data |-> Zeros(hnd.chunk_pointers[block_id + 1][2]),
          log |-> <<>>]
    ELSE decompress_data(hnd.chunk_pointers[block_id + 1][1],
                         get_block(disk, hnd, block_id))

(***************************************************************************)
(* The three traversals.  Each loop is a recursion over block_id that      *)
(* carries the running crc, the events and (extract_to) the bytes written. *)
(***************************************************************************)
RECURSIVE verify_loop(_, _, _, _, _)
verify_loop(disk, hnd, block_id, crc, log) ==
    IF block_id >= Len(hnd.chunk_pointers)
    THEN [err |-> "", crc |-> crc, log |-> log]
    ELSE IF hnd.chunk_pointers[block_id + 1][1] # 0
    THEN With(get_block(disk, hnd, block_id), LAMBDA gb :
             IF gb.err # ""
             THEN [err |-> gb.err, crc |-> crc, log |-> log \o gb.log]
             ELSE IF Len(gb.data) # hnd.chunk_pointers[block_id + 1][2]
             THEN [err |-> "Wrong data size", crc |-> crc, log |-> log \o gb.log]
             ELSE verify_loop(disk, hnd, block_id + 1, crc32(gb.data, crc),
                      (log \o gb.log)
                          \o <<Ev("crc", None, block_id, -1, -1, Len(gb.data))>>))
    ELSE verify_loop(disk, hnd, block_id + 1, crc, log)

\* A variant of verify_isz_file that compares the crc without complementing it.
verify_isz_file_no_complement(disk, hdr, hnd) ==
    With(verify_loop(disk, hnd, 0, Zero32, <<>>), LAMBDA r :
        [err |-> r.err, value |-> r.err = "" /\ r.crc = checksum2(hdr),
         crc |-> r.crc, log |-> r.log])

\* verify_isz_file: value is the boolean returned when err is ""
verify_isz_file(disk, hdr, hnd) ==
    With(verify_loop(disk, hnd, 0, Zero32, <<>>), LAMBDA r :
        [err |-> r.err, value |-> r.err = "" /\ Not32(r.crc) = checksum2(hdr),
         crc |-> Not32(r.crc), log |-> r.log])

RECURSIVE verify_uncompress_loop(_, _, _, _, _)
verify_uncompress_loop(disk, hnd, block_id, crc, log) ==
    IF block_id >= Len(hnd.chunk_pointers)
    THEN [err |-> "", crc |-> crc, log |-> log]
    ELSE With(decompress_block(disk, hnd, block_id), LAMBDA d :
             IF d.err # ""
             THEN [err |-> d.err, crc |-> crc, log |-> log \o d.log]
             ELSE verify_uncompress_loop(disk, hnd, block_id + 1,
                      crc32(d.data, crc),
                      (log \o d.log)
                          \o <<Ev("crc", None, block_id, -1, -1, Len(d.data))>>))

verify_uncompress_isz_file(disk, hdr, hnd) ==
    With(verify_uncompress_loop(disk, hnd, 0, Zero32, <<>>), LAMBDA r :
        [err |-> r.err, value |-> r.err = "" /\ Not32(r.crc) = checksum1(hdr),
         crc |-> Not32(r.crc), log |-> r.log])

RECURSIVE extract_loop(_, _, _, _, _, _)
extract_loop(disk, hnd, block_id, crc, iso, log) ==
    IF block_id >= Len(hnd.chunk_pointers)
    THEN [err |-> "", crc |-> crc, iso |-> iso, log |-> log]
    ELSE With(decompress_block(disk, hnd, block_id), LAMBDA d :
             IF d.err # ""
             THEN [err |-> d.err, crc |-> crc, iso |-> iso, log |-> log \o d.log]
             ELSE extract_loop(disk, hnd, block_id + 1, crc32(d.data, crc),
                      iso \o d.data,
                      (log \o d.log)
                          \o <<Ev("write", None, block_id, Len(iso), Len(d.data),
                                  Len(d.data))>>))

\* A variant of extract_to that empties the destination when the crc differs.
extract_to_rollback(disk, hdr, hnd) ==
    With(extract_loop(disk, hnd, 0, Zero32, <<>>, <<>>), LAMBDA r :
        [err |-> IF r.err # "" THEN r.err
                 ELSE IF Not32(r.crc) # checksum1(hdr)
                 THEN "CRC Error during extraction"
                 ELSE "",
         crc |-> Not32(r.crc),
         iso |-> IF r.err = "" /\ Not32(r.crc) # checksum1(hdr) THEN <<>>
                 ELSE r.iso,
         log |-> r.log])

\* extract_to: the destination is opened 'wb' (truncated), written block by
\* block, closed, and only then is the crc compared.
extract_to(disk, hdr, hnd) ==
    With(extract_loop(disk, hnd, 0, Zero32, <<>>, <<>>), LAMBDA r :
        [err |-> IF r.err # "" THEN r.err
                 ELSE IF Not32(r.crc) # checksum1(hdr)
                 THEN "CRC Error during extraction"
                 ELSE "",
         crc |-> Not32(r.crc), iso |-> r.iso, log |-> r.log])


(***************************************************************************)
(* The inputs: containers written by an encoder of the format.  A logical  *)
(* block is [t: storage method, n: uncompressed length, b: a byte].        *)
(***************************************************************************)
MaxSize == 2      \* block lengths are 1..MaxSize+1
MaxLeft == 1      \* bytes of a split block stored in the next segment

LE32(n) == <<n % 256, (n \div 256) % 256, (n \div 65536) % 256, n \div 16777216>>

RECURSIVE Counting(_, _)
Counting(n, b) == IF n <= 0 THEN <<>> ELSE <<b>> \o Counting(n - 1, b + 1)

Plain(blk) ==
    IF blk.t = StorageZeros THEN Zeros(blk.n)
    ELSE IF blk.t = StorageData THEN Counting(blk.n, blk.b)
    ELSE Repeat(blk.n, blk.b)

\* the bytes a block occupies in the segment files
Stored(blk) ==
    IF blk.t = StorageZeros THEN <<>>
    ELSE IF blk.t = StorageData THEN Counting(blk.n, blk.b)
    ELSE IF blk.t = StorageZlib THEN <<blk.n, blk.b>>
    ELSE <<73, 115, 90, blk.n, blk.b>>

Pointer(blk) ==
    <<blk.t, IF blk.t = StorageZeros THEN blk.n ELSE Len(Stored(blk))>>

RECURSIVE Concat(_)
Concat(ss) == IF ss = <<>> THEN <<>> ELSE Head(ss) \o Concat(Tail(ss))

PlainOf(blocks) == Concat([i \in 1..Len(blocks) |-> Plain(blocks[i])])
StoredOf(blocks) == Concat([i \in 1..Len(blocks) |-> Stored(blocks[i])])

PackPointer(p) ==
    <<p[2] % 256, (p[2] \div 256) % 256, p[1] * 64 + p[2] \div 65536>>

MakePointers(blocks) ==
    xor_obfuscate(Concat([i \in 1..Len(blocks) |-> PackPointer(Pointer(blocks[i]))]))

MakeSdt(nchunks, first, offset, left) ==
    xor_obfuscate(<<1, 0, 0, 0, 0, 0, 0, 0>> \o LE32(nchunks) \o LE32(first)
                    \o LE32(offset) \o LE32(left))

SdtEnd == xor_obfuscate(Zeros(SdtSize))

MakeHeader(f) ==
    f.sig \o <<64, f.version>> \o LE32(4660) \o <<0, 8>> \o LE32(1)
      \o <<f.enc>> \o Zeros(8) \o LE32(f.nblock) \o LE32(4) \o <<f.ptrlen>>
      \o <<f.segno>> \o LE32(f.cpo) \o LE32(f.spo) \o LE32(f.doff) \o <<0>>
      \o f.ck1 \o LE32(f.size1) \o Zeros(4) \o f.ck2

\* one bit of a checksum changed
Flip(ck) == [ck EXCEPT ![1] = BitXor(ck[1], 1)]
MaybeFlip(ck, flip) == IF flip THEN Flip(ck) ELSE ck

Blocks(layout, sz) ==
    [i \in 1..Len(layout) |->
        [t |-> layout[i], n |-> sz + (i % 2), b |-> 16 * i + 1]]

\* The header fields of the first file of a container.
HeaderFields(blocks, spo, cpo, doff, defect) ==
    [sig |-> IF defect = "bad_signature" THEN <<73, 115, 90, 63>> ELSE Magic,
     version |-> IF defect = "version2" THEN 2 ELSE 1,
     enc |-> CASE defect = "enc1" -> 1 [] defect = "enc2" -> 2
               [] defect = "enc3" -> 3 [] defect = "enc4" -> 4 [] OTHER -> 0,
     nblock |-> Len(blocks),
     ptrlen |-> IF defect = "ptrlen4" THEN 4 ELSE 3,
     segno |-> IF defect = "segno1" THEN 1 ELSE 0,
     cpo |-> cpo, spo |-> spo, doff |-> doff,
     ck1 |-> MaybeFlip(Not32(crc32(PlainOf(blocks), Zero32)),
                       defect = "flip_ck1"),
     size1 |-> Len(StoredOf(blocks)),
     ck2 |-> MaybeFlip(Not32(crc32(StoredOf(blocks), Zero32)),
                       defect = "flip_ck2")]

Damage(file, defect) ==
    IF defect = "short_header" THEN SubSeq(file, 1, 10)
    ELSE IF defect = "truncated" THEN DropLast(file, 1)
    ELSE file

\* split.kind: "plain" (no tables), "single" (pointer table only), "table1"
\* (a one-descriptor segment table), "two" (two segment files; the first
\* holds blocks 1..k less the last `left` bytes of block k).
FileOf(fields, tables, data) == MakeHeader(fields) \o tables \o data

FirstFile(blocks, split, defect) ==
    CASE split.kind = "plain" ->
           FileOf(HeaderFields(blocks, 0, 0, 64, defect), <<>>, StoredOf(blocks))
      [] split.kind = "single" ->
           FileOf(HeaderFields(blocks, 0, 64, 64 + 3 * Len(blocks), defect),
                  MakePointers(blocks), StoredOf(blocks))
      [] split.kind = "table1" ->
           FileOf(HeaderFields(blocks, 64, 112, 112 + 3 * Len(blocks), defect),
                  MakeSdt(Len(blocks), 0, 112 + 3 * Len(blocks), 0) \o SdtEnd
                    \o MakePointers(blocks),
                  StoredOf(blocks))
      [] split.kind = "two" ->
           FileOf(HeaderFields(blocks, 64, 136, 136 + 3 * Len(blocks), defect),
                  MakeSdt(split.k, 0, 136 + 3 * Len(blocks), split.left)
                    \o MakeSdt(Len(blocks) - split.k, split.k, 64 + split.left, 0)
                    \o SdtEnd \o MakePointers(blocks),
                  DropLast(StoredOf(SubSeq(blocks, 1, split.k)), split.left))

SecondFile(blocks, split, defect) ==
    FileOf([HeaderFields(blocks, 0, 0, 64, "none") EXCEPT !.segno = 1], <<>>,
           SubSeq(StoredOf(blocks),
                  Len(StoredOf(SubSeq(blocks, 1, split.k))) - split.left + 1,
                  Len(StoredOf(blocks))))

(***************************************************************************)
(* File names and the enumerated disks.                                    *)
(***************************************************************************)
d_isz == <<"d", ".", "i", "s", "z">>
d_part01_isz == <<"d", ".", "p", "a", "r", "t", "0", "1", ".", "i", "s", "z">>
d_part001_isz == <<"d", ".", "p", "a", "r", "t", "0", "0", "1", ".", "i", "s", "z">>
d_bin == <<"d", ".", "b", "i", "n">>
d_i01 == <<"d", ".", "i", "0", "1">>
d_part02_isz == <<"d", ".", "p", "a", "r", "t", "0", "2", ".", "i", "s", "z">>
d_part002_isz == <<"d", ".", "p", "a", "r", "t", "0", "0", "2", ".", "i", "s", "z">>
d_part01_i01 == <<"d", ".", "p", "a", "r", "t", "0", "1", ".", "i", "0", "1">>
e_isz == <<"e", ".", "i", "s", "z">>
x_isz == <<"x", ".", "i", "s", "z">>

BaseNames == {d_isz, d_part01_isz, d_part001_isz, d_bin}
SiblingNames == {d_i01, d_part02_isz, d_part002_isz, d_part01_i01}

Layouts ==
    {<<StorageZeros, StorageData, StorageData>>,
     <<StorageData>>,
     <<StorageData, StorageZeros, StorageZlib>>,
     <<StorageBzip2, StorageData>>,
     <<StorageZlib, StorageBzip2, StorageZeros>>,
     <<StorageZeros, StorageZeros, StorageData>>}

Defects ==
    {"short_header", "bad_signature", "version2", "segno1", "flip_ck1",
     "flip_ck2", "truncated", "ptrlen4", "enc1", "enc2", "enc3", "enc4"}

Splits(blocks) ==
    {[kind |-> "single", k |-> Len(blocks), left |-> 0],
     [kind |-> "table1", k |-> Len(blocks), left |-> 0]}
    \cup {[kind |-> "two", k |-> k, left |-> l] :
            k \in 1..(Len(blocks) - 1), l \in 0..MaxLeft}
    \cup (IF Len(blocks) = 1 /\ blocks[1].t = StorageData
          THEN {[kind |-> "plain", k |-> 1, left |-> 0]} ELSE {})

SplitFits(blocks, split) == split.left <= Len(Stored(blocks[split.k]))

TwoAt2 == [kind |-> "two", k |-> 2, left |-> 1]
ZDD == <<StorageZeros, StorageData, StorageData>>

\* intact containers of every layout and split, under the first naming rule
IntactWorlds ==
    {[layout |-> l, sz |-> sz, split |-> sp, base |-> d_isz,
      sibs |-> IF sp.kind = "two" THEN {d_i01} ELSE {}, defect |-> "none"] :
        l \in Layouts, sz \in 1..MaxSize,
        sp \in [kind : {"plain", "single", "table1", "two"}, k : 1..3,
                left : 0..MaxLeft]}

\* one two-segment container under every base name and set of siblings
NamingWorlds ==
    {[layout |-> ZDD, sz |-> 1, split |-> TwoAt2, base |-> b, sibs |-> ss,
      defect |-> "none"] :
        b \in BaseNames, ss \in {x \in SUBSET SiblingNames : Cardinality(x) <= 2}}

\* one container, single and in two segments, with each defect
DefectWorlds ==
    {[layout |-> ZDD, sz |-> 1, split |-> sp, base |-> d_isz,
      sibs |-> {d_i01}, defect |-> df] :
        sp \in {TwoAt2, [kind |-> "single", k |-> 3, left |-> 0]},
        df \in Defects}

WorldOk(w) ==
    /\ w.split \in Splits(Blocks(w.layout, w.sz))
    /\ SplitFits(Blocks(w.layout, w.sz), w.split)

Worlds == {w \in IntactWorlds \cup NamingWorlds \cup DefectWorlds : WorldOk(w)}

\* a container without tables: one Raw-Data chunk
PlainFile(sz) ==
    FirstFile(Blocks(<<StorageData>>, sz),
              [kind |-> "plain", k |-> 1, left |-> 0], "none")

DiskFiles(w, blocks) ==
    [n \in {w.base, e_isz} \cup w.sibs |->
        IF n = w.base THEN Damage(FirstFile(blocks, w.split, w.defect), w.defect)
        ELSE IF n = e_isz THEN PlainFile(w.sz + 1)
        ELSE SecondFile(blocks, w.split, w.defect)]

DiskOf(w) == DiskFiles(w, Blocks(w.layout, w.sz))

(***************************************************************************)
(* The state.                                                              *)
(***************************************************************************)
VARIABLES
    disk,        \* the file system (never written: the destination is iso)
    isz_header,  \* ISZ_File.isz_header, the class attribute: one buffer
    handles,     \* the ISZ_File instances
    iso,         \* the contents of the destination file of extract_to
    result,      \* what the last call returned or raised, and its events
    world        \* the description the disk was encoded from

vars == <<disk, isz_header, handles, iso, result, world>>

Handles == {"A", "B"}

NoResult ==
    [op |-> "none", h |-> "A", arg |-> None, block |-> -1, err |-> "",
     value |-> FALSE, data |-> <<>>, log |-> <<>>]

InitWith(ws) ==
    /\ world \in ws
    /\ disk = DiskOf(world)
    /\ isz_header = Zeros(HeaderSize)
    /\ handles = [h \in Handles |-> NewHandle]
    /\ iso = <<>>
    /\ result = NoResult

Init == InitWith(Worlds)

Open(h, f) ==
    \E r \in {open_isz_file(disk, isz_header, handles[h], f)} :
        /\ isz_header' = r.hdr
        /\ handles' = [handles EXCEPT ![h] = r.hnd]
        /\ result' = [NoResult EXCEPT !.op = "open", !.h = h, !.arg = f,
                                      !.err = r.err, !.log = r.log]
        /\ UNCHANGED <<disk, iso, world>>

Close(h) ==
    /\ handles' = [handles EXCEPT ![h] = close_file(handles[h])]
    /\ result' = [NoResult EXCEPT !.op = "close", !.h = h]
    /\ UNCHANGED <<disk, isz_header, iso, world>>

GetBlock(h, b) ==
    \E r \in {get_block(disk, handles[h], b)} :
        /\ result' = [NoResult EXCEPT !.op = "get_block", !.h = h, !.block = b,
                                      !.err = r.err, !.data = r.data,
                                      !.log = r.log]
        /\ UNCHANGED <<disk, isz_header, handles, iso, world>>

VerifyCompressed(h) ==
    \E r \in {verify_isz_file(disk, isz_header, handles[h])} :
        /\ result' = [NoResult EXCEPT !.op = "verify_isz_file", !.h = h,
                                      !.err = r.err, !.value = r.value,
                                      !.data = r.crc, !.log = r.log]
        /\ UNCHANGED <<disk, isz_header, handles, iso, world>>

VerifyUncompressed(h) ==
    \E r \in {verify_uncompress_isz_file(disk, isz_header, handles[h])} :
        /\ result' = [NoResult EXCEPT !.op = "verify_uncompress_isz_file",
                                      !.h = h, !.err = r.err,
                                      !.value = r.value, !.data = r.crc,
                                      !.log = r.log]
        /\ UNCHANGED <<disk, isz_header, handles, iso, world>>

Extract(h) ==
    \E r \in {extract_to(disk, isz_header, handles[h])} :
        /\ iso' = r.iso
        /\ result' = [NoResult EXCEPT !.op = "extract_to", !.h = h,
                                      !.err = r.err, !.data = r.crc,
                                      !.log = r.log]
        /\ UNCHANGED <<disk, isz_header, handles, world>>

NextFor(hs) ==
    \E h \in hs :
        \/ \E f \in DOMAIN disk \cup {x_isz} : Open(h, f)
        \/ Close(h)
        \/ \E b \in 0..Len(handles[h].chunk_pointers) : GetBlock(h, b)
        \/ VerifyCompressed(h)
        \/ VerifyUncompressed(h)
        \/ Extract(h)

Next == NextFor({"A"})

Spec == Init /\ [][Next]_vars

\* Two handles on a few disks: the instances share the class attribute.
SharedWorlds ==
    {w \in Worlds : /\ w.layout = ZDD /\ w.sz = 1 /\ w.base = d_isz
                    /\ w.split.kind = "single"
                    /\ w.defect \in {"none", "flip_ck2"}}

InitShared == InitWith(SharedWorlds)

NextShared == NextFor(Handles)

SpecShared == InitShared /\ [][NextShared]_vars

(***************************************************************************)
(* Vocabulary of the properties.                                           *)
(***************************************************************************)
Hnd == handles[result.h]
Pointers == Hnd.chunk_pointers
EventsOf(kind) == SelectSeq(result.log, LAMBDA e : e.ev = kind)
BlocksOf(events) == [i \in 1..Len(events) |-> events[i].block]
WorldBlocks == Blocks(world.layout, world.sz)

\* the ids 0..n-1 of the blocks that are not Zeros, in increasing order
NonZerosIds(ptrs) ==
    SelectSeq([i \in 1..Len(ptrs) |-> i - 1], LAMBDA b : ptrs[b + 1][1] # 0)

IsPrefix(s, t) == Len(s) <= Len(t) /\ s = SubSeq(t, 1, Len(s))

\* the handle of the last call holds the tables of the world's container
OpenedBase ==
    /\ Hnd.fp = world.base
    /\ Len(Pointers) = Len(world.layout)

\* the sum of the sizes of the non-Zeros blocks first..b-1, as a count
StoredBefore(ptrs, first, b) ==
    Cardinality(UNION {{<<i, j>> : j \in 1..ptrs[i + 1][2]} :
                          i \in {k \in 0..(Len(ptrs) - 1) :
                                    first <= k /\ k < b /\ ptrs[k + 1][1] # 0}})

\* the first segment whose range holds block b (0 if none)
SegmentOf(b) ==
    IF \E s \in 1..Len(Hnd.isz_segments) :
           /\ Hnd.isz_segments[s].first_chunck_number <= b
           /\ b < Hnd.isz_segments[s].first_chunck_number
                    + Hnd.isz_segments[s].number_of_chunks
    THEN CHOOSE s \in 1..Len(Hnd.isz_segments) :
           /\ Hnd.isz_segments[s].first_chunck_number <= b
           /\ b < Hnd.isz_segments[s].first_chunck_number
                    + Hnd.isz_segments[s].number_of_chunks
           /\ \A t \in 1..(s - 1) :
                ~(/\ Hnd.isz_segments[t].first_chunck_number <= b
                  /\ b < Hnd.isz_segments[t].first_chunck_number
                           + Hnd.isz_segments[t].number_of_chunks)
    ELSE 0

(***************************************************************************)
(* Properties.                                                             *)
(***************************************************************************)

\* C1: extract_to writes the decompressed blocks 0, 1, 2, ... in increasing
\* order, each appended at the end of the destination, so the destination
\* is the concatenation of the decompressed blocks; the CRC error is raised
\* exactly when the whole pass was made and the complement of the CRC of
\* what was written differs from checksum1, and then the destination still
\* holds every block.
C1_ExtractAppendsThenChecks ==
    result.op = "extract_to" =>
        LET writes == EventsOf("write")
            crcfail == result.err = "CRC Error during extraction"
        IN  /\ \A i \in 1..Len(writes) :
                  /\ writes[i].block = i - 1
                  /\ writes[i].off =
                        Len(Concat([j \in 1..(i - 1) |->
                              decompress_block(disk, Hnd, j - 1).data]))
                  /\ writes[i].size =
                        Len(decompress_block(disk, Hnd, i - 1).data)
            /\ Len(writes) <= Len(Pointers)
            /\ iso = Concat([j \in 1..Len(writes) |->
                              decompress_block(disk, Hnd, j - 1).data])
            /\ crcfail <=> /\ Len(writes) = Len(Pointers)
                           /\ Not32(crc32(iso, Zero32)) # checksum1(isz_header)
            /\ result.err = "" <=>
                   /\ Len(writes) = Len(Pointers)
                   /\ Not32(crc32(iso, Zero32)) = checksum1(isz_header)
            /\ (OpenedBase /\ (crcfail \/ result.err = ""))
                   => iso = PlainOf(WorldBlocks)

C1_Witness ==
    /\ result.op = "extract_to"
    /\ result.err = "CRC Error during extraction"
    /\ OpenedBase
    /\ Len(Pointers) = 3
    /\ iso = PlainOf(WorldBlocks)
    /\ Len(iso) > 3

\* C2: verify_isz_file folds the non-Zeros blocks, and only them, in block
\* order into a CRC that starts at 0 and returns whether its complement is
\* checksum2; on a container whose blocks are all readable a changed
\* checksum2 gives False, not an exception, after the same reads.
C2_VerifyCompressed ==
    result.op = "verify_isz_file" =>
        LET folds == EventsOf("crc")
            ids == NonZerosIds(Pointers)
            stored == Concat([i \in 1..Len(ids) |->
                                 get_block(disk, Hnd, ids[i]).data])
        IN  /\ IsPrefix(BlocksOf(folds), ids)
            /\ result.err = "" =>
                   /\ BlocksOf(folds) = ids
                   /\ result.value <=>
                        Not32(crc32(stored, Zero32)) = checksum2(isz_header)
            /\ result.err # "" => ~result.value
            /\ (OpenedBase /\ world.defect \in {"none", "flip_ck2"}) =>
                   /\ result.err = ""
                   /\ stored = StoredOf(WorldBlocks)
                   /\ result.value <=> world.defect = "none"

C2_Witness ==
    /\ result.op = "verify_isz_file"
    /\ OpenedBase
    /\ world.defect = "flip_ck2"
    /\ result.err = ""
    /\ ~result.value
    /\ Len(EventsOf("crc")) = 2
    /\ Len(Pointers) = 3

\* C3: verify_uncompress_isz_file folds the decompressed bytes of every
\* block in order; a Zeros block is folded as its declared number of zero
\* bytes and causes no read of a segment file; the result is whether the
\* complement of the CRC is checksum1.
C3_VerifyUncompressed ==
    result.op = "verify_uncompress_isz_file" =>
        LET folds == EventsOf("crc")
            reads == EventsOf("read")
            plain == Concat([i \in 1..Len(Pointers) |->
                        IF Pointers[i][1] = StorageZeros
                        THEN Zeros(Pointers[i][2])
                        ELSE decompress_block(disk, Hnd, i - 1).data])
        IN  /\ \A i \in 1..Len(folds) : folds[i].block = i - 1
            /\ \A i \in 1..Len(folds) :
                  Pointers[i][1] = StorageZeros => folds[i].got = Pointers[i][2]
            /\ \A i \in 1..Len(reads) :
                  Pointers[reads[i].block + 1][1] # StorageZeros
            /\ result.err = "" =>
                  /\ Len(folds) = Len(Pointers)
                  /\ result.value <=>
                        Not32(crc32(plain, Zero32)) = checksum1(isz_header)
            /\ (OpenedBase /\ world.defect \in {"none", "flip_ck1"}) =>
                  /\ result.err = ""
                  /\ plain = PlainOf(WorldBlocks)
                  /\ result.value <=> world.defect = "none"

C3_Witness ==
    /\ result.op = "verify_uncompress_isz_file"
    /\ OpenedBase
    /\ world.defect = "none"
    /\ result.value
    /\ \E i \in 1..Len(Pointers) :
          Pointers[i][1] = StorageZeros /\ Pointers[i][2] > 0
    /\ \E i \in 1..Len(Pointers) : Pointers[i][1] = StorageZlib

\* C4: open_isz_file fails when the file has fewer than 64 bytes, a wrong
\* signature, a version other than 1 or a nonzero segment index, and then
\* neither table has been read; after an open that succeeds the header has
\* the signature, version 1 and segment index 0.
C4_OpenRejectsBadHeader ==
    (result.op = "open" /\ Exists(disk, result.arg)) =>
        LET file == disk[result.arg]
            bad == \/ Len(file) < 64
                   \/ SubSeq(file, 1, 4) # <<73, 115, 90, 33>>
                   \/ file[6] # 1
                   \/ file[35] # 0
        IN  /\ bad =>
                 /\ result.err # ""
                 /\ EventsOf("read_segments") = <<>>
                 /\ EventsOf("read_chunk_pointers") = <<>>
                 /\ Hnd.isz_segments = <<>>
                 /\ Hnd.chunk_pointers = <<>>
            /\ result.err = "" =>
                 /\ ~bad
                 /\ signature(isz_header) = Magic
                 /\ version_number(isz_header) = 1
                 /\ file_seg_number(isz_header) = 0
                 /\ isz_header = SubSeq(file, 1, 64)

C4_Witness ==
    /\ result.op = "open"
    /\ result.arg = d_i01
    /\ Exists(disk, d_i01)
    /\ result.err = "Not the first segment in a set"
    /\ SubSeq(disk[d_i01], 1, 4) = Magic
    /\ Hnd.isz_segments = <<>>

\* The candidates of the three rules for segment 1 and the rules whose
\* candidate exists.
Candidates(f) ==
    <<name_generator_1(f, 1), name_generator_2(f, 1), name_generator_3(f, 1)>>
Hits(f) == {k \in 1..3 : Exists(disk, Candidates(f)[k])}
FirstHit(f) == CHOOSE k \in Hits(f) : \A j \in Hits(f) : k <= j
Probes == [i \in 1..Len(EventsOf("exists")) |-> EventsOf("exists")[i].name]

\* C5 as stated: with more than one descriptor, open selects the first rule
\* whose name for segment 1 exists, and fails, before any block read, if
\* there is none.
C5_Original ==
    (result.op = "open" /\ Len(Hnd.isz_segments) > 1) =>
        IF Hits(result.arg) # {}
        THEN /\ Hnd.name_generator = name_generators[FirstHit(result.arg)]
             /\ Probes = SubSeq(Candidates(result.arg), 1, FirstHit(result.arg))
        ELSE /\ result.err # ""
             /\ EventsOf("read") = <<>>

\* C5 amended: the same when the name of the opened file ends in '.isz';
\* when it does not, open fails without probing any rule and without any
\* block read.
C5_NamingDetection ==
    (result.op = "open" /\ Len(Hnd.isz_segments) > 1) =>
        IF ~EndsWith(result.arg, <<".", "i", "s", "z">>)
        THEN /\ result.err # ""
             /\ Probes = <<>>
             /\ EventsOf("read") = <<>>
             /\ Hnd.chunk_pointers = <<>>
        ELSE IF Hits(result.arg) # {}
        THEN /\ Hnd.name_generator = name_generators[FirstHit(result.arg)]
             /\ Probes = SubSeq(Candidates(result.arg), 1, FirstHit(result.arg))
        ELSE /\ result.err # ""
             /\ Probes = Candidates(result.arg)
             /\ EventsOf("read") = <<>>
             /\ Hnd.chunk_pointers = <<>>

C5_Witness ==
    /\ result.op = "open"
    /\ result.arg = d_part01_isz
    /\ Len(Hnd.isz_segments) = 2
    /\ ~Exists(disk, d_part01_i01)
    /\ Exists(disk, d_part02_isz)
    /\ Probes = <<d_part01_i01, d_part02_isz>>
    /\ Hnd.name_generator = "name_generator_2"
    /\ result.err = ""

\* C6 as stated: each handle owns its header: while a handle holds the
\* tables of a container, its header is the one read from its own file,
\* whatever is opened or closed through another handle.
C6_OwnHeader ==
    \A h \in Handles :
        handles[h].chunk_pointers # <<>> =>
            isz_header = SubSeq(disk[handles[h].fp], 1, 64)

\* C7 as stated: on a container whose encryption type is not 0 the two
\* verifications and the extraction fail with 'encryption not supported'.
C7_EncryptedRejected ==
    (/\ result.op \in {"verify_isz_file", "verify_uncompress_isz_file",
                       "extract_to"}
     /\ OpenedBase
     /\ encryption_type(isz_header) # 0) =>
        /\ result.err = "encryption not supported"
        /\ ~result.value
        /\ EventsOf("write") = <<>>

\* C8: the offset at which get_block reads block b in its segment's file is
\* the segment's chunk_offset plus the sizes of the non-Zeros blocks of the
\* segment before b; Zeros blocks add nothing.  On an intact container the
\* bytes returned for a block that is not Zeros are the bytes it was stored
\* as.
C8_BlockOffset ==
    (result.op = "get_block" /\ result.log # <<>>) =>
        LET b == result.block
            s == SegmentOf(b)
            seg == Hnd.isz_segments[s]
        IN  /\ s >= 1
            /\ result.log[1].ev = "read"
            /\ s = 1 => result.log[1].name = Hnd.filename
            /\ result.log[1].off =
                  seg.chunk_offset
                    + StoredBefore(Pointers, seg.first_chunck_number, b)
            /\ (OpenedBase /\ result.err = "" /\ Pointers[b + 1][1] # StorageZeros)
                  => result.data = Stored(WorldBlocks[b + 1])

C8_Witness ==
    /\ result.op = "get_block"
    /\ result.block = 2
    /\ result.err = ""
    /\ Len(Hnd.isz_segments) = 1
    /\ Pointers[1][1] = StorageZeros /\ Pointers[1][2] = 2
    /\ Pointers[2][1] = StorageData /\ Pointers[2][2] = 1
    /\ result.log[1].off = Hnd.isz_segments[1].chunk_offset + 1

\* C9: the last block of a segment whose left_size is positive is returned
\* as the size - left_size bytes read from the segment followed by the
\* left_size bytes read at offset 64 of the next segment; whenever
\* get_block returns, the data has exactly the declared size, and otherwise
\* it raises 'Unable to read block'.
C9_SplitBlock ==
    (/\ result.op = "get_block"
     /\ result.block < Len(Pointers)
     /\ SegmentOf(result.block) >= 1) =>
        LET b == result.block
            size == Pointers[b + 1][2]
            seg == Hnd.isz_segments[SegmentOf(b)]
            last == b = seg.first_chunck_number + seg.number_of_chunks - 1
            reads == EventsOf("read")
        IN  /\ result.err = "" => Len(result.data) = size
            /\ result.err # "" => result.err = "Unable to read block"
            /\ (result.err = "" /\ last /\ seg.left_size > 0) =>
                  /\ Len(reads) = 2
                  /\ reads[1].size = size - seg.left_size
                  /\ reads[1].got = size - seg.left_size
                  /\ reads[2].off = 64
                  /\ reads[2].size = seg.left_size
                  /\ reads[2].got = seg.left_size
                  /\ reads[2].name # reads[1].name
                  /\ result.data =
                        FileRead(disk[reads[1].name], reads[1].off,
                                 size - seg.left_size)
                          \o FileRead(disk[reads[2].name], 64, seg.left_size)
                  /\ OpenedBase =>
                        /\ reads[2].name \in world.sibs
                        /\ result.data = Stored(WorldBlocks[b + 1])
            /\ (result.err = "" /\ ~(last /\ seg.left_size # 0)) =>
                  Len(reads) = 1

C9_Witness ==
    /\ result.op = "get_block"
    /\ result.err = ""
    /\ OpenedBase
    /\ Len(Hnd.isz_segments) = 2
    /\ Hnd.isz_segments[1].left_size = 1
    /\ result.block = Hnd.isz_segments[1].number_of_chunks - 1
    /\ Len(result.data) >= 2
    /\ Len(EventsOf("read")) = 2

\* C10: after a successful open of a file whose header has both table
\* offsets 0, the handle has one chunk pointer (Data, size1), one segment
\* descriptor (first block 0, nblock blocks, data_offset, left 0) and the
\* generator that leaves the name unchanged.
C10_NoTables ==
    (/\ result.op = "open"
     /\ result.err = ""
     /\ SubSeq(disk[result.arg], 36, 43) = <<0, 0, 0, 0, 0, 0, 0, 0>>) =>
        LET file == disk[result.arg]
        IN  /\ Len(Pointers) = 1
            /\ Pointers[1][1] = 1
            /\ Pointers[1][2] = file[53] + 256 * file[54]
            /\ Len(Hnd.isz_segments) = 1
            /\ Hnd.isz_segments[1].first_chunck_number = 0
            /\ Hnd.isz_segments[1].number_of_chunks = file[26] + 256 * file[27]
            /\ Hnd.isz_segments[1].chunk_offset = file[44] + 256 * file[45]
            /\ Hnd.isz_segments[1].left_size = 0
            /\ Hnd.name_generator = "name_generator_no_change"
            /\ Pointers[1][2] = Len(file) - 64

C10_Witness ==
    /\ result.op = "open"
    /\ result.err = ""
    /\ result.arg = e_isz
    /\ SubSeq(disk[e_isz], 36, 43) = <<0, 0, 0, 0, 0, 0, 0, 0>>
    /\ Pointers = <<<<1, Len(disk[e_isz]) - 64>>>>
    /\ Len(Hnd.isz_segments) = 1

=============================================================================
